---- MODULE Spec2Model ----
(***************************************************************************)
(* jobTagger (src/jobTagger/src/main.c): a JSON document is tokenised      *)
(* into a flat preorder token array (json_tokenise) and main() walks the   *)
(* array once with a switch-driven state machine and size_t counters.      *)
(*                                                                         *)
(* size_t values: TLC integers are 32 bit wide, so a size_t value v is     *)
(* kept as the integer of least magnitude congruent to v modulo 2^64       *)
(* (SIZE_MAX is -1, SIZE_MAX - 1 is -2, ...).  Addition and subtraction    *)
(* are then plain integer operations, "x == 0" is x = 0, "x > 0" on a      *)
(* size_t is x # 0 and "x % 2" is x % 2 (2^64 is even).  All counters of   *)
(* the model stay far inside (-2^31, 2^31), so the representative is       *)
(* unique.                                                                 *)
(***************************************************************************)
EXTENDS Integers, Sequences, FiniteSets, TLC

(***************************************************************************)
(* Bounds of the input space.                                              *)
(***************************************************************************)
MaxMembers == 4
MaxMetrics == 3
MaxNodes == 2

\* unsigned int n = 4096 of json_tokenise()
InitialCapacity == 4096

(***************************************************************************)
(* Characters and the two literals the walker compares keys with.          *)
(***************************************************************************)
NUL == "NUL"
SeriesLit == <<"s", "e", "r", "i", "e", "s">>
DataLit == <<"d", "a", "t", "a">>
SerieTxt == <<"s", "e", "r", "i", "e">>
FlopsTxt == <<"f">>
BwTxt == <<"b">>
UnitTxt == <<"u">>
NaTxt == <<"n">>

(***************************************************************************)
(* JSON values (the input, before it is flattened).  k is the kind, s the  *)
(* text of a String, keys the member names of an Object and c the member   *)
(* values of an Object or the elements of an Array.  A member name is a    *)
(* JSON value itself: a String in JSON proper, but the walker checks the   *)
(* type of a key token (line 187), so names of other kinds are inputs too. *)
(***************************************************************************)
Prim == [k |-> "PRIMITIVE", s |-> <<>>, keys |-> <<>>, c |-> <<>>]
Str(txt) == [k |-> "STRING", s |-> txt, keys |-> <<>>, c |-> <<>>]
Arr(elems) == [k |-> "ARRAY", s |-> <<>>, keys |-> <<>>, c |-> elems]
\* an object whose member names are the values kvs
ObjK(kvs, vs) == [k |-> "OBJECT", s |-> <<>>, keys |-> kvs, c |-> vs]
\* an object whose member names are the Strings of the texts ks
Obj(ks, vs) == ObjK([p \in 1..Len(ks) |-> Str(ks[p])], vs)

IsContainerKind(kind) == kind \in {"ARRAY", "OBJECT"}

(***************************************************************************)
(* Token model (jsmntok_t): type, the span [start, end) into the buffer    *)
(* and size, the number of member pairs of an Object, of elements of an    *)
(* Array, 0 for a String or Primitive.  Tokens are in preorder.            *)
(* Flatten(v, off) is the text of v and its tokens when the text starts    *)
(* at (0-based) offset off of the buffer.                                  *)
(***************************************************************************)
Token(type, start, end, size) ==
    [type |-> type, start |-> start, end |-> end, size |-> size]

RECURSIVE Flatten(_, _)
RECURSIVE FlattenElems(_, _, _, _)
RECURSIVE FlattenMembers(_, _, _, _, _)

\* elements vs[lo..hi], comma separated, the first at offset off (the range
\* is halved, which keeps the nesting of the evaluation logarithmic)
FlattenElems(vs, lo, hi, off) ==
    IF lo > hi THEN [js |-> <<>>, toks |-> <<>>]
    ELSE IF lo = hi THEN Flatten(vs[lo], off)
    ELSE LET mid == (lo + hi) \div 2
             left == FlattenElems(vs, lo, mid, off)
             right == FlattenElems(vs, mid + 1, hi, off + Len(left.js) + 1)
         IN [js |-> left.js \o <<",">> \o right.js,
             toks |-> left.toks \o right.toks]

\* members ks[lo..hi]:vs[lo..hi], comma separated, the first at offset off
FlattenMembers(ks, vs, lo, hi, off) ==
    IF lo > hi THEN [js |-> <<>>, toks |-> <<>>]
    ELSE IF lo = hi
    THEN LET key == Flatten(ks[lo], off)
             val == Flatten(vs[lo], off + Len(key.js) + 1)
         IN [js |-> key.js \o <<":">> \o val.js, toks |-> key.toks \o val.toks]
    ELSE LET mid == (lo + hi) \div 2
             left == FlattenMembers(ks, vs, lo, mid, off)
             right == FlattenMembers(ks, vs, mid + 1, hi, off + Len(left.js) + 1)
         IN [js |-> left.js \o <<",">> \o right.js,
             toks |-> left.toks \o right.toks]

Flatten(v, off) ==
    CASE v.k = "PRIMITIVE" ->
           [js |-> <<"1">>, toks |-> <<Token("PRIMITIVE", off, off + 1, 0)>>]
      [] v.k = "STRING" ->
           [js |-> <<"\"">> \o v.s \o <<"\"">>,
            toks |-> <<Token("STRING", off + 1, off + 1 + Len(v.s), 0)>>]
      [] v.k = "ARRAY" ->
           LET in == FlattenElems(v.c, 1, Len(v.c), off + 1)
           IN [js |-> <<"[">> \o in.js \o <<"]">>,
               toks |-> <<Token("ARRAY", off, off + Len(in.js) + 2, Len(v.c))>>
                        \o in.toks]
      [] v.k = "OBJECT" ->
           LET in == FlattenMembers(v.keys, v.c, 1, Len(v.keys), off + 1)
           IN [js |-> <<"{">> \o in.js \o <<"}">>,
               toks |-> <<Token("OBJECT", off, off + Len(in.js) + 2, Len(v.keys))>>
                        \o in.toks]

(***************************************************************************)
(* The inputs.  An input is a JSON value and the way its text reaches the  *)
(* program: whole ("valid"), cut short ("truncated") or with the closing   *)
(* bracket of the root replaced by the other kind ("invalid").             *)
(***************************************************************************)
\* values used as members of arbitrary root objects and as unknown members
LeafValues == {Prim, Str(SeriesLit), Str(SerieTxt)}
NestedValues == {Arr(<<Prim>>), Obj(<<SeriesLit>>, <<Arr(<<>>)>>)}
MemberValues == LeafValues \cup NestedValues
\* the member names of an arbitrary root object, by position
RootKeyAt(p) == IF p % 2 = 1 THEN FlopsTxt ELSE SeriesLit

SeqsOf(S, len) == [1..len -> S]

\* root objects of up to MaxMembers arbitrary members
PlainObjects ==
    UNION {{Obj([p \in 1..m |-> RootKeyAt(p)], vs) : vs \in SeqsOf(MemberValues, m)}
           : m \in 0..MaxMembers}

\* roots that are not objects
OtherRoots == {Prim, Str(NaTxt), Arr(<<>>), Arr(<<Prim, Prim, Prim>>)}

\* where the unknown members of a record stand relative to the recognised one
ExtraPlacements == {"none", "before", "after", "both"}
ExtraValues == {Prim, Str(DataLit), Obj(<<UnitTxt>>, <<Arr(<<Prim, Obj(<<DataLit>>, <<Prim>>)>>)>>)}
DataValues == {Arr(<<>>), Arr(<<Prim, Prim, Prim>>), Str(NaTxt)}

\* a record holding the recognised member name -> value and the unknown
\* member UnitTxt -> extra at the given placement
Record(name, value, placement, extra) ==
    CASE placement = "none" -> Obj(<<name>>, <<value>>)
      [] placement = "before" -> Obj(<<UnitTxt, name>>, <<extra, value>>)
      [] placement = "after" -> Obj(<<name, UnitTxt>>, <<value, extra>>)
      [] placement = "both" -> Obj(<<UnitTxt, name, UnitTxt>>, <<extra, value, extra>>)

MetricNames == <<FlopsTxt, BwTxt, UnitTxt, NaTxt>>

\* a document of the expected shape: nm metrics, each a record with a
\* "series" array of nn node records, each with a "data" member
Shaped(nm, nn, data, mp, np, extra) ==
    LET node == Record(DataLit, data, np, extra)
        metric == Record(SeriesLit, Arr([q \in 1..nn |-> node]), mp, extra)
    IN Obj([p \in 1..nm |-> MetricNames[p]], [p \in 1..nm |-> metric])

ShapedDocs ==
    {Shaped(nm, nn, data, mp, np, extra) :
        nm \in 1..MaxMetrics, nn \in 0..MaxNodes, data \in DataValues,
        mp \in ExtraPlacements, np \in ExtraPlacements, extra \in ExtraValues}

\* documents of more tokens than the first capacity of json_tokenise() and
\* than the second
LargeDocs ==
    {Obj(<<FlopsTxt>>, <<Arr([p \in 1..len |-> Prim])>>) :
        len \in {InitialCapacity, 2 * InitialCapacity + 1}}

\* documents with a member name that is not a String: the name of a
\* metric, of a member of a metric record, of a member of a node record,
\* and an array as the name that follows a member whose value is "series"
KeyedDocs ==
    {ObjK(<<Prim, Str(BwTxt)>>, <<Obj(<<SeriesLit>>, <<Arr(<<>>)>>), Prim>>),
     Obj(<<FlopsTxt, BwTxt>>, <<ObjK(<<Prim>>, <<Arr(<<>>)>>), Prim>>),
     Obj(<<FlopsTxt, BwTxt, UnitTxt>>,
         <<Obj(<<SeriesLit>>, <<Arr(<<ObjK(<<Prim>>, <<Arr(<<>>)>>)>>)>>),
           Prim, Prim>>)}
      \cup {ObjK(<<Str(FlopsTxt), Arr(<<Arr(<<Str(DataLit), data>>), Prim>>),
                   Str(BwTxt), Str(UnitTxt)>>,
                 <<Str(SeriesLit), Prim, Prim, Prim>>)
             : data \in DataValues \cup {Prim}}

Docs == PlainObjects \cup OtherRoots \cup ShapedDocs \cup LargeDocs \cup KeyedDocs

\* the texts that are cut short or damaged
BrokenDocs ==
    {Obj(<<FlopsTxt>>, <<Obj(<<SeriesLit>>, <<Arr(<<>>)>>)>>),
     Arr(<<Prim, Prim, Prim>>)}

\* an input: the value, the text of the value and the tokens of that text
\* (file), and the way the text reaches the program
InputOf(class, d, cut) ==
    [class |-> class, doc |-> d, cut |-> cut, file |-> Flatten(d, 0)]

\* the file of no bytes
EmptyFile == InputOf("truncated", Arr(<<>>), 0)

\* The files: the text of a value; a text cut after cut bytes ("truncated");
\* a text whose last byte closes the wrong kind of container ("invalid");
\* a text with a NUL byte at offset cut ("nul").
Inputs ==
    {InputOf("valid", d, 0) : d \in Docs}
      \cup UNION {{InputOf("truncated", d, cut) :
                      cut \in {1, Len(Flatten(d, 0).js) - 1}} : d \in BrokenDocs}
      \cup {EmptyFile}
      \cup {InputOf("invalid", d, 0) : d \in BrokenDocs}
      \cup UNION {{InputOf("nul", d, cut) :
                      cut \in {1, Len(Flatten(d, 0).js) - 1}} : d \in BrokenDocs}

\* The bytes of the file.  json_fetch() returns the mapping of the file with
\* nothing added to it, and MAP_FAILED, which the empty buffer stands for,
\* when the file is empty (mmap of length 0 fails and is not checked).
Bytes(in) ==
    LET text == in.file.js
    IN CASE in.class = "valid" -> text
         [] in.class = "truncated" -> SubSeq(text, 1, in.cut)
         [] in.class = "invalid" ->
              [p \in 1..Len(text) |->
                  IF p < Len(text) THEN text[p]
                  ELSE IF text[p] = "}" THEN "]" ELSE "}"]
         [] in.class = "nul" -> [text EXCEPT ![in.cut + 1] = NUL]

(***************************************************************************)
(* jsmn_parse(): the tokens of the first len bytes of the buffer, or the   *)
(* error that prevents them.  A token beyond the capacity is NOMEM, a      *)
(* damaged text INVAL, a text that ends inside a value PART.  The parser   *)
(* keeps its place between calls: the offset it has read to (pos) and the  *)
(* number of tokens it has produced (toknext); a call after NOMEM goes on  *)
(* from there into the room the larger array has.                          *)
(***************************************************************************)
\* jsmn_init(): nothing read, nothing produced
jsmn_init == [pos |-> 0, toknext |-> 0]

\* the tokens that begin within the first len bytes of the text
TokensBegun(in, len) ==
    SelectSeq(in.file.toks, LAMBDA t : t.start < len)

\* the offset a token is read from: a String from its opening quote
ReadFrom(t) == IF t.type = "STRING" THEN t.start - 1 ELSE t.start

jsmn_parse(in, len, cap, p) ==
    LET found == TokensBegun(in, len)
        last == found[Len(found)]
        left == Len(found) - p.toknext
        room == cap - p.toknext
        whole == len = Len(in.file.js)
        damaged == in.class = "invalid" /\ whole
    IN CASE left > room ->
              [err |-> "NOMEM", count |-> 0, toks |-> <<>>,
               parser |-> [pos |-> ReadFrom(found[cap + 1]), toknext |-> cap]]
         [] left <= room /\ damaged ->
              [err |-> "INVAL", count |-> 0, toks |-> <<>>,
               parser |-> [pos |-> len - 1, toknext |-> Len(found)]]
         [] left <= room /\ ~whole /\ len > 0 ->
              [err |-> "PART", count |-> 0, toks |-> <<>>,
               parser |-> [pos |-> IF /\ Len(found) > 0
                                      /\ last.type = "STRING"
                                      /\ last.end >= len
                                   THEN ReadFrom(last) ELSE len,
                           toknext |-> Len(found)]]
         [] left <= room /\ ~damaged /\ (whole \/ len = 0) ->
              [err |-> "none", count |-> Len(found), toks |-> found,
               parser |-> [pos |-> len, toknext |-> Len(found)]]

(***************************************************************************)
(* json_token_streq(): strncmp() of the token's bytes with the literal     *)
(* over the token's length, and the literal as long as the token.          *)
(***************************************************************************)
\* the granularity of a mapping
PageSize == 4096

\* The bytes of the mapping of a file: whole pages, the rest of the last
\* page filled with zeros.  Offsets 0 .. Mapped(buf) - 1 can be read,
\* reading any other is undefined.
Mapped(buf) == ((Len(buf) + PageSize - 1) \div PageSize) * PageSize

Readable(buf, k) == 0 <= k /\ k < Mapped(buf)

\* strlen(js) is defined when the mapping holds a terminator: a NUL byte of
\* the file, or the zero fill after a file that is not of whole pages
HasTerminator(buf) ==
    \/ Len(buf) % PageSize # 0
    \/ \E p \in 1..Len(buf) : buf[p] = NUL

\* the character at 0-based offset k of a NUL-terminated text, and of a
\* mapping at an offset that can be read
CharAt(text, k) == IF 0 <= k /\ k < Len(text) THEN text[k + 1] ELSE NUL

\* x - y of two ints, wrapped to an int
IntSub(x, y) ==
    CASE x >= 0 /\ y < 0 /\ x > 2147483647 + y ->
           (x - 2147483647 - 1) - (y + 2147483647 + 1)
      [] x < 0 /\ y >= 0 /\ x < y - 2147483647 - 1 ->
           (x + 2147483647 + 1) - (y - 2147483647 - 1)
      [] OTHER -> x - y

\* The characters strncmp(_, b, len) looks at, at most: len is converted to
\* size_t, so a negative len is a huge count, and the comparison ends at
\* the terminator of b.
Count(b, len) == IF len < 0 \/ len > Len(b) + 1 THEN Len(b) + 1 ELSE len

\* strncmp(a + off, b, len) == 0
strncmp0(a, off, b, len) ==
    \A k \in 0..(Count(b, len) - 1) :
        (\A m \in 0..(k - 1) : CharAt(a, off + m) # NUL)
            => CharAt(a, off + k) = CharAt(b, k)

\* the number of characters of a the comparison reads: up to the first
\* difference or NUL
ReadsOf(a, off, b, len) ==
    LET stops == {k \in 0..(Count(b, len) - 1) :
                     \/ CharAt(a, off + k) = NUL
                     \/ CharAt(a, off + k) # CharAt(b, k)}
    IN IF stops = {} THEN Count(b, len)
       ELSE (CHOOSE k \in stops : \A m \in stops : k <= m) + 1

\* the comparison reads inside the mapping only
StreqDefined(buf, t, lit) ==
    LET len == IntSub(t.end, t.start)
    IN \/ Count(lit, len) = 0
       \/ /\ Readable(buf, t.start)
          /\ Readable(buf, t.start + ReadsOf(buf, t.start, lit, len) - 1)

\* und: what strncmp() == 0 yields when it reads outside the mapping (where
\* it does not fault)
json_token_streq(buf, t, lit, und) ==
    LET len == IntSub(t.end, t.start)
    IN /\ IF StreqDefined(buf, t, lit)
          THEN strncmp0(buf, t.start, lit, len) ELSE und
       /\ Len(lit) = len

(***************************************************************************)
(* json_token_tostr(): the terminator is written at the token's end        *)
(* offset of the buffer and the C string at the token's start is           *)
(* returned.  The write faults (SIGSEGV) where it falls into a mapping     *)
(* that is read-only, which the mapping of json_fetch() is; a write at an  *)
(* offset outside the mapping is undefined: it may fault, and it may       *)
(* change a byte that is none of the buffer's.                             *)
(***************************************************************************)
\* the protection of the mapping json_fetch() returns (line 66)
JsProt == "PROT_READ"

\* the bytes of buf from 0-based offset off to its first NUL or its end
CStr(buf, off) ==
    LET nuls == {p \in (off + 1)..Len(buf) : buf[p] = NUL}
        first == CHOOSE p \in nuls : \A q \in nuls : p <= q
    IN SubSeq(buf, off + 1, IF nuls = {} THEN Len(buf) ELSE first - 1)

\* What reading the C string at js + off may give (str), or that reading
\* it faults (strfault).  The string is that of the mapping where a NUL of
\* the file or the zero fill ends it.  Where the bytes of the mapping run
\* to its end without a NUL, or off is outside the mapping, the read is
\* undefined: it may fault, and it may give the bytes of the file from off
\* on followed by any bytes that are none of its own; a terminator written
\* at offset end, off <= end, ends the string there at the latest.
StrHead(buf, off) ==
    IF 0 <= off /\ off < Len(buf) THEN CStr(buf, off) ELSE <<>>

StrEnded(buf, off) ==
    /\ Readable(buf, off)
    /\ \/ off + Len(StrHead(buf, off)) < Len(buf)
       \/ Len(buf) % PageSize # 0

CStrings(buf, off, end) ==
    LET head == StrHead(buf, off)
    IN IF StrEnded(buf, off) THEN {[str |-> head, strfault |-> FALSE]}
       ELSE {r \in [str : Seq(STRING), strfault : BOOLEAN] :
               /\ r.strfault => r.str = <<>>
               /\ ~r.strfault =>
                     /\ Len(r.str) >= Len(head)
                     /\ SubSeq(r.str, 1, Len(head)) = head
                     /\ \A k \in 1..Len(r.str) : r.str[k] # NUL
                     /\ off <= end => Len(r.str) <= end - off}

\* The outcomes of json_token_tostr(js, t): killed by the write, or the
\* terminator written and js + t->start returned (str: the string read
\* there).  A write outside the mapping leaves the bytes of the buffer as
\* they are.
json_token_tostr(buf, prot, t) ==
    LET written == IF 0 <= t.end /\ t.end < Len(buf)
                   THEN [buf EXCEPT ![t.end + 1] = NUL] ELSE buf
        killed == [fault |-> TRUE, buf |-> buf, str |-> <<>>,
                   strfault |-> FALSE]
        made == IF StrEnded(written, t.start)
                THEN {[fault |-> FALSE, buf |-> written,
                       str |-> StrHead(written, t.start), strfault |-> FALSE]}
                ELSE {m \in [fault : {FALSE}, buf : {written},
                             str : Seq(STRING), strfault : BOOLEAN] :
                        [str |-> m.str, strfault |-> m.strfault]
                            \in CStrings(written, t.start, t.end)}
    IN IF Readable(buf, t.end)
       THEN IF prot = "PROT_READ" THEN {killed} ELSE made
       ELSE {killed} \cup made

(***************************************************************************)
(* The loop body of main(): the switch over the parse state.  A cursor c   *)
(* holds the locals of main() the switch reads and writes, the lines       *)
(* written to stdout that are not the per-token trace (out) and whether    *)
(* exit() was called (exited).                                             *)
(***************************************************************************)
Line(text, num) == [line |-> text, n |-> num]

\* CaseStart without the exit(): the message is printed and the walk goes on
CaseStartNoExit(c, t) ==
    IF t.type # "OBJECT"
    THEN [c EXCEPT !.out = Append(@, Line("root element must be object", 0)),
                   !.state = "METRIC"]
    ELSE [c EXCEPT !.state = "METRIC"]

CaseStart(c, t) ==
    IF t.type # "OBJECT"
    THEN [c EXCEPT !.out = Append(@, Line("root element must be object", 0)),
                   !.exited = TRUE]
    ELSE [c EXCEPT !.state = "METRIC"]

CaseMetric(c, t) ==
    IF t.type # "STRING"
    THEN [c EXCEPT !.out = Append(@, Line("metric key must be a string", 0)),
                   !.exited = TRUE]
    ELSE [c EXCEPT !.state = "METRIC_OBJECT", !.object_tokens = t.size]

CaseMetricObject(c, t, buf, und) ==
    LET left == c.object_tokens - 1
        next == IF t.type = "STRING" /\ json_token_streq(buf, t, SeriesLit, und)
                THEN "SERIES" ELSE "SKIP"
        skip == IF next = "SKIP" /\ IsContainerKind(t.type)
                THEN t.size ELSE c.skip_tokens
    IN [c EXCEPT !.object_tokens = left,
                 !.skip_tokens = skip,
                 !.state = IF left = 0 THEN "METRIC" ELSE next]

CaseSkip(c, t) ==
    [c EXCEPT !.skip_tokens =
        IF IsContainerKind(t.type) THEN @ - 1 + t.size ELSE @ - 1]

CaseSeries(c, t) ==
    LET said == IF t.type # "ARRAY"
                THEN Append(c.out, Line("expected array", 0)) ELSE c.out
    IN [c EXCEPT !.out = said,
                 !.nodes = t.size,
                 !.state = IF t.size = 0 THEN "METRIC_OBJECT" ELSE "NODE_ARRAY"]

CaseNodeArray(c, t) ==
    LET left == c.nodes - 1
    IN [c EXCEPT !.nodes = left,
                 !.node_tokens = t.size,
                 !.state = IF left = 0 THEN "STOP" ELSE "NODE_OBJECT"]

CaseNodeObject(c, t, buf, und) ==
    LET left == c.node_tokens - 1
        isKey == left % 2 = 1
        next == IF ~isKey THEN c.state
                ELSE IF t.type = "STRING" /\ json_token_streq(buf, t, DataLit, und)
                THEN "DATA" ELSE "SKIP"
        skip == IF isKey /\ next = "SKIP" /\ IsContainerKind(t.type)
                THEN t.size ELSE c.skip_tokens
    IN [c EXCEPT !.node_tokens = left,
                 !.skip_tokens = skip,
                 !.state = IF left = 0 THEN "NODE_ARRAY" ELSE next]

CaseData(c, t) ==
    LET said == IF t.type # "ARRAY" \/ t.type # "STRING"
                THEN Append(c.out, Line("expected string or array", 0))
                ELSE c.out
    IN IF t.type = "ARRAY"
       THEN [c EXCEPT !.out = Append(said, Line("elements", t.size)),
                      !.elements = t.size,
                      !.state = "SKIP",
                      !.skip_tokens = t.size]
       ELSE [c EXCEPT !.out = said]

CaseStop(c, t) == c

Switch(c, t, buf, und) ==
    CASE c.state = "START" -> CaseStart(c, t)
      [] c.state = "METRIC" -> CaseMetric(c, t)
      [] c.state = "METRIC_OBJECT" -> CaseMetricObject(c, t, buf, und)
      [] c.state = "SKIP" -> CaseSkip(c, t)
      [] c.state = "SERIES" -> CaseSeries(c, t)
      [] c.state = "NODE_ARRAY" -> CaseNodeArray(c, t)
      [] c.state = "NODE_OBJECT" -> CaseNodeObject(c, t, buf, und)
      [] c.state = "DATA" -> CaseData(c, t)
      [] c.state = "STOP" -> CaseStop(c, t)

\* OuterCount without the container itself counted down: its children are
\* added, the token is not taken off
OuterCountKeeps(cnt, t) ==
    IF IsContainerKind(t.type) THEN cnt + t.size ELSE cnt - 1

\* the outer counter: j += t->size for a container, then j-- of the for loop
OuterCount(cnt, t) ==
    IF IsContainerKind(t.type) THEN cnt + t.size - 1 ELSE cnt - 1

(***************************************************************************)
(* The program state.                                                      *)
(*   input    the JSON value the file was written from, its text and the   *)
(*            tokens of that text, and how the text reaches the program    *)
(*            (the environment's choice, never read by the walker)         *)
(*   js       the buffer json_fetch() returned                             *)
(*   pc       "tokenise": before jsmn_parse (line 79); "loop": at the      *)
(*            test of the retry loop (line 81); "walk": in the for loop    *)
(*            of main(); "done": main() returned; "exit": exit() called;   *)
(*            "fault": the process was killed by a memory fault            *)
(*   parser   the jsmn_parser of json_tokenise() (line 73)                 *)
(*   n, ret   capacity and last result of jsmn_parse in json_tokenise()    *)
(*   tokens   the initialised tokens of the array json_tokenise() returns  *)
(*   state .. elements, i, j   the locals of main()                        *)
(*   out      the lines written to stdout, without the per-token trace     *)
(*   visited  history: the parse state each consumed token was handled in  *)
(*   materialized  history: the indexes of the tokens json_token_tostr()   *)
(*            was called with                                              *)
(***************************************************************************)
VARIABLES input, js, pc, parser, n, ret, tokens,
          state, object_tokens, node_tokens, skip_tokens, metrics, nodes,
          elements, i, j, out, visited, materialized

vars == <<input, js, pc, parser, n, ret, tokens, state, object_tokens, node_tokens,
          skip_tokens, metrics, nodes, elements, i, j, out, visited,
          materialized>>

locals == <<state, object_tokens, node_tokens, skip_tokens, metrics, nodes,
            elements, i, j, visited, materialized>>

NoResult == [err |-> "none", count |-> 0, toks |-> <<>>]

Init ==
    /\ input \in Inputs
    /\ js = Bytes(input)
    /\ pc = "tokenise"
    /\ parser = jsmn_init
    /\ n = 0
    /\ ret = NoResult
    /\ tokens = <<>>
    /\ state = "START"
    /\ object_tokens = 0
    /\ node_tokens = 0
    /\ skip_tokens = 0
    /\ metrics = 0
    /\ nodes = 0
    /\ elements = 0
    /\ i = 0
    /\ j = 0
    /\ out = <<>>
    /\ visited = <<>>
    /\ materialized = <<>>

(***************************************************************************)
(* json_tokenise()                                                         *)
(***************************************************************************)
TokenTypes == {"OBJECT", "ARRAY", "STRING", "PRIMITIVE"}

\* strlen(js) of a mapping that holds a terminator: the offset of its first
\* NUL byte, which is the length of the file when the file holds none
strlen(buf) ==
    LET nuls == {p \in 1..Len(buf) : buf[p] = NUL}
    IN IF nuls = {} THEN Len(buf)
       ELSE (CHOOSE p \in nuls : \A q \in nuls : p <= q) - 1

\* what a token array and a parser may hold, and what a call of jsmn_parse
\* may leave
TokenRecords == [type : TokenTypes, start : Nat, end : Nat, size : Nat]

ParseResults ==
    [err : {"none", "NOMEM", "INVAL", "PART"}, count : Nat,
     toks : Seq(TokenRecords), parser : [pos : Nat, toknext : Nat]]

\* What jsmn_parse may leave when strlen(js) read past a mapping without
\* terminator and did not fault.  The byte that follows the mapping may be
\* a NUL: the text parsed is then the file alone.  Otherwise it is the
\* file followed by bytes that are none of its own.  What the file alone
\* decides stays (a token beyond the capacity, a damaged byte); otherwise
\* the bytes that follow may be anything: they may damage the text, leave
\* it unfinished (the parser back at the String it could not finish), hold
\* tokens beyond the capacity, or add tokens after those of the file
\* (whose kinds and starts stay).
ParsedBeyond(in, cap, p) ==
    LET len == Len(Bytes(in))
        found == TokensBegun(in, len)
        alone == jsmn_parse(in, len, cap, p)
    IN IF alone.err \in {"NOMEM", "INVAL"} THEN {alone}
       ELSE {alone} \cup
            {r \in ParseResults :
               /\ r.err = "none" => r.parser.pos > len
               /\ r.err \in {"NOMEM", "INVAL"} => r.parser.pos >= len
               /\ r.parser.toknext >= Len(found)
               /\ r.parser.toknext <= cap
               /\ r.err # "none" => r.count = 0 /\ r.toks = <<>>
               /\ r.err = "none" =>
                     /\ r.count = Len(r.toks)
                     /\ r.count = r.parser.toknext
                     /\ \A k \in 1..Len(found) :
                           /\ r.toks[k].type = found[k].type
                           /\ r.toks[k].start = found[k].start}

\* jsmn_parse(&parser, js, strlen(js), tokens, cap) of lines 79 and 85 with
\* the parser as p.  strlen(MAP_FAILED), the buffer of an empty file, kills
\* the process; strlen() of a mapping without terminator reads past the
\* mapping, which may kill the process and may go on to a NUL byte that
\* follows it.
Parse(cap, p) ==
    \/ /\ ~HasTerminator(js)
       /\ pc' = "fault"
       /\ parser' = p
       /\ ret' = ret
    \/ /\ HasTerminator(js)
       /\ LET r == jsmn_parse(input, strlen(js), cap, p)
          IN /\ ret' = [err |-> r.err, count |-> r.count, toks |-> r.toks]
             /\ parser' = r.parser
       /\ pc' = "loop"
    \/ /\ ~HasTerminator(js)
       /\ Len(js) > 0
       /\ \E r \in ParsedBeyond(input, cap, p) :
             /\ ret' = [err |-> r.err, count |-> r.count, toks |-> r.toks]
             /\ parser' = r.parser
       /\ pc' = "loop"

\* n * 2 + 1 of an unsigned int (the product below 2^31 is written without
\* the modulus, which is beyond the integers TLC computes with)
Grown(cap) ==
    IF cap <= 1073741823 THEN cap * 2 + 1
    ELSE (cap * 2 + 1) % (65536 * 65536)

\* lines 73-79: jsmn_init, allocate InitialCapacity tokens and parse
TokeniseParse ==
    /\ pc = "tokenise"
    /\ n' = InitialCapacity
    /\ Parse(InitialCapacity, jsmn_init)
    /\ UNCHANGED <<input, js, tokens, locals, out>>

\* lines 81-86: grow the array and parse again with the same parser
TokeniseGrow ==
    /\ pc = "loop"
    /\ ret.err = "NOMEM"
    /\ n' = Grown(n)
    /\ Parse(Grown(n), parser)
    /\ UNCHANGED <<input, js, tokens, locals, out>>

\* lines 88-91
TokeniseInvalid ==
    /\ pc = "loop"
    /\ ret.err = "INVAL"
    /\ out' = Append(out, Line("invalid JSON string", 0))
    /\ pc' = "exit"
    /\ UNCHANGED <<input, js, parser, n, ret, tokens, locals>>

\* TokenisePartial without the exit(): the message is printed and the
\* (unfilled) array is returned to main()
TokenisePartialNoExit ==
    /\ pc = "loop"
    /\ ret.err = "PART"
    /\ out' = Append(out, Line("truncated JSON string", 0))
    /\ pc' = "walk"
    /\ j' = 1
    /\ UNCHANGED <<input, js, parser, n, ret, tokens, state, object_tokens,
                   node_tokens, skip_tokens, metrics, nodes, elements, i,
                   visited, materialized>>

\* lines 92-95
TokenisePartial ==
    /\ pc = "loop"
    /\ ret.err = "PART"
    /\ out' = Append(out, Line("truncated JSON string", 0))
    /\ pc' = "exit"
    /\ UNCHANGED <<input, js, parser, n, ret, tokens, locals>>

\* line 97 and lines 159-166: the tokens are returned and the walk is set up
TokeniseReturn ==
    /\ pc = "loop"
    /\ ret.err = "none"
    /\ tokens' = ret.toks
    /\ pc' = "walk"
    /\ state' = "START"
    /\ node_tokens' = 0
    /\ skip_tokens' = 0
    /\ metrics' = 0
    /\ nodes' = 0
    /\ elements' = 0
    /\ i' = 0
    /\ j' = 1
    /\ UNCHANGED <<input, js, parser, n, ret, object_tokens, out, visited,
                   materialized>>

(***************************************************************************)
(* main(): the for loop                                                    *)
(***************************************************************************)
\* the values of an int
CInt == (-2147483647 - 1)..2147483647

\* An element of the array that jsmn_parse did not fill is uninitialised
\* memory of malloc()/realloc(): it holds anything, a type that is one of
\* the four kinds or none of them ("UNDEFINED") and any three ints.
GarbageTokens ==
    [type : TokenTypes \cup {"UNDEFINED"}, start : CInt, end : CInt,
     size : CInt]

ReadToken(toks, idx) ==
    IF idx < Len(toks) THEN {toks[idx + 1]} ELSE GarbageTokens

\* the iteration compares t with a literal: a String in METRIC_OBJECT
\* (line 200) and at a key of NODE_OBJECT (line 263)
Compares(st, nt, t) ==
    /\ t.type = "STRING"
    /\ \/ st = "METRIC_OBJECT"
       \/ st = "NODE_OBJECT" /\ nt % 2 = 0

ComparedWith(st) == IF st = "METRIC_OBJECT" THEN SeriesLit ELSE DataLit

\* the comparison of the iteration reads outside the mapping
ReadsOutside(st, nt, t, buf) ==
    Compares(st, nt, t) /\ ~StreqDefined(buf, t, ComparedWith(st))

\* what the comparison of the iteration may yield where it is undefined
UndefinedReads(st, nt, t, buf) ==
    IF ReadsOutside(st, nt, t, buf) THEN BOOLEAN ELSE {FALSE}

\* The iteration on token t may be killed by a memory fault: print_token()
\* passes an uninitialised pointer to printf when the type is none of the
\* four kinds (lines 116-131), json_token_streq() reads outside the
\* mapping (line 102).
ReadFaults(st, nt, t, buf) ==
    \/ t.type \notin TokenTypes
    \/ ReadsOutside(st, nt, t, buf)

Cursor ==
    [state |-> state, object_tokens |-> object_tokens,
     node_tokens |-> node_tokens, skip_tokens |-> skip_tokens,
     nodes |-> nodes, elements |-> elements, out |-> out, exited |-> FALSE]

\* The iteration on token t is killed by a memory fault.  print_token()
\* faults before the switch is entered; json_token_streq() faults within
\* the case of the state, after the case has taken its counter down (lines
\* 198 and 257).  The process dies with what stdout still buffered: of the
\* lines written, the first ones are left, however many were flushed.
Killed(t) ==
    LET compared == ReadsOutside(state, node_tokens, t, js)
    IN /\ ReadFaults(state, node_tokens, t, js)
       /\ pc' = "fault"
       /\ object_tokens' = IF compared /\ state = "METRIC_OBJECT"
                           THEN object_tokens - 1 ELSE object_tokens
       /\ node_tokens' = IF compared /\ state = "NODE_OBJECT"
                         THEN node_tokens - 1 ELSE node_tokens
       /\ visited' = IF compared THEN Append(visited, state) ELSE visited
       /\ \E kept \in 0..Len(out) : out' = SubSeq(out, 1, kept)
       /\ UNCHANGED <<state, skip_tokens, nodes, elements, i, j>>

\* WalkStep with a metric name that is looked at without being consumed:
\* the index stays when the token was handled in METRIC
WalkStepPeek ==
    /\ pc = "walk"
    /\ j # 0
    /\ \E t \in ReadToken(tokens, i) :
       \E und \in UndefinedReads(state, node_tokens, t, js) :
         \/ Killed(t)
         \/ LET c == Switch(Cursor, t, js, und)
            IN /\ state' = c.state
               /\ object_tokens' = c.object_tokens
               /\ node_tokens' = c.node_tokens
               /\ skip_tokens' = c.skip_tokens
               /\ nodes' = c.nodes
               /\ elements' = c.elements
               /\ out' = c.out
               /\ visited' = Append(visited, state)
               /\ IF c.exited
                  THEN /\ pc' = "exit"
                       /\ i' = i
                       /\ j' = j + (IF IsContainerKind(t.type) THEN t.size ELSE 0)
                  ELSE /\ pc' = "walk"
                       /\ i' = IF state = "METRIC" THEN i ELSE i + 1
                       /\ j' = OuterCount(j, t)
    /\ UNCHANGED <<input, js, parser, n, ret, tokens, metrics, materialized>>

\* WalkStep with the keys compared through json_token_tostr(): a String
\* handled in METRIC_OBJECT or NODE_OBJECT is materialized before it is
\* compared, which faults where the write falls into the read-only mapping
WalkStepTostr ==
    /\ pc = "walk"
    /\ j # 0
    /\ \E t \in ReadToken(tokens, i) :
       \E und \in UndefinedReads(state, node_tokens, t, js) :
         LET c == Switch(Cursor, t, js, und)
             compared == /\ state \in {"METRIC_OBJECT", "NODE_OBJECT"}
                         /\ t.type = "STRING"
         IN \/ Killed(t) /\ UNCHANGED <<js, materialized>>
            \/ \E made \in json_token_tostr(js, JsProt, t) :
               /\ compared
               /\ made.fault
               /\ pc' = "fault"
               /\ visited' = Append(visited, state)
               /\ materialized' = Append(materialized, i)
               /\ \E kept \in 0..Len(out) : out' = SubSeq(out, 1, kept)
               /\ UNCHANGED <<js, state, object_tokens, node_tokens,
                              skip_tokens, nodes, elements, i, j>>
            \/ \E made \in json_token_tostr(js, JsProt, t) :
               /\ ~(compared /\ made.fault)
               /\ state' = c.state
               /\ object_tokens' = c.object_tokens
               /\ node_tokens' = c.node_tokens
               /\ skip_tokens' = c.skip_tokens
               /\ nodes' = c.nodes
               /\ elements' = c.elements
               /\ out' = c.out
               /\ visited' = Append(visited, state)
               /\ js' = IF compared THEN made.buf ELSE js
               /\ materialized' = IF compared THEN Append(materialized, i)
                                  ELSE materialized
               /\ IF c.exited
                  THEN /\ pc' = "exit"
                       /\ i' = i
                       /\ j' = j + (IF IsContainerKind(t.type) THEN t.size ELSE 0)
                  ELSE /\ pc' = "walk"
                       /\ i' = i + 1
                       /\ j' = OuterCount(j, t)
    /\ UNCHANGED <<input, parser, n, ret, tokens, metrics>>

\* lines 166-300: one iteration (json_token_tostr() is not called in it);
\* reading an element jsmn_parse did not fill is a choice over what the
\* element may hold and over the fault it may cause
WalkStep ==
    /\ pc = "walk"
    /\ j # 0
    /\ \E t \in ReadToken(tokens, i) :
       \E und \in UndefinedReads(state, node_tokens, t, js) :
         \/ Killed(t)
         \/ LET c == Switch(Cursor, t, js, und)
            IN /\ state' = c.state
               /\ object_tokens' = c.object_tokens
               /\ node_tokens' = c.node_tokens
               /\ skip_tokens' = c.skip_tokens
               /\ nodes' = c.nodes
               /\ elements' = c.elements
               /\ out' = c.out
               /\ visited' = Append(visited, state)
               /\ IF c.exited
                  THEN /\ pc' = "exit"
                       /\ i' = i
                       /\ j' = j + (IF IsContainerKind(t.type) THEN t.size ELSE 0)
                  ELSE /\ pc' = "walk"
                       /\ i' = i + 1
                       /\ j' = OuterCount(j, t)
    /\ UNCHANGED <<input, js, parser, n, ret, tokens, metrics, materialized>>

\* lines 302-303: the loop is left, the tokens are freed, main() returns
WalkEnd ==
    /\ pc = "walk"
    /\ j = 0
    /\ pc' = "done"
    /\ UNCHANGED <<input, js, parser, n, ret, tokens, locals, out>>

Next ==
    \/ TokeniseParse
    \/ TokeniseGrow
    \/ TokeniseInvalid
    \/ TokenisePartial
    \/ TokeniseReturn
    \/ WalkStep
    \/ WalkEnd

Spec == Init /\ [][Next]_vars

\* the program is one sequential process: a statement that can run does
FairSpec == Spec /\ WF_vars(Next)

TypeOK ==
    /\ pc \in {"tokenise", "loop", "walk", "done", "exit", "fault"}
    /\ state \in {"START", "METRIC", "METRIC_OBJECT", "SERIES", "NODE_ARRAY",
                  "NODE_OBJECT", "DATA", "SKIP", "STOP"}
    /\ i \in Nat

(***************************************************************************)
(* The structure of a Document, from the child counts alone: an Object     *)
(* of n member pairs has 2n direct children (a key and a value per pair),  *)
(* an Array of n elements has n.  Positions are 1-based indexes of the     *)
(* token sequence.                                                         *)
(***************************************************************************)
ChildTokens(t) ==
    CASE t.type = "OBJECT" -> 2 * t.size
      [] t.type = "ARRAY" -> t.size
      [] OTHER -> 0

RECURSIVE SubtreeEnd(_, _)
RECURSIVE AfterChildren(_, _, _)

\* the position of the last token of the subtree rooted at position k
SubtreeEnd(toks, k) == AfterChildren(toks, k, ChildTokens(toks[k]))

\* the position of the last token of the next cnt subtrees after position last
AfterChildren(toks, last, cnt) ==
    IF cnt = 0 THEN last
    ELSE AfterChildren(toks, SubtreeEnd(toks, last + 1), cnt - 1)

\* the number of tokens the walk has consumed
Consumed == Len(visited)

\* the walk ran over the tokens of a Document
Walking == pc \in {"walk", "done", "exit"} /\ input.class = "valid"

(***************************************************************************)
(* C1. Round-trip token accounting: the outer counter, 1 at the start,     *)
(* decremented per consumed token and increased by the child count of a    *)
(* container, is 0 only after exactly len(Document) tokens were consumed,  *)
(* and is not 0 while tokens of the Document are left.                     *)
(***************************************************************************)
C1_CounterEndsWithDocument ==
    (Walking /\ pc # "exit") => (j = 0 <=> Consumed = Len(tokens))

(***************************************************************************)
(* The expected shape, on the JSON value: a root object whose members are  *)
(* metric records; a metric record is an object with one "series" member   *)
(* holding an array of node records; a node record is an object with one   *)
(* "data" member holding an array or a string.  Further members are the    *)
(* unknown members.                                                        *)
(***************************************************************************)
MembersNamed(v, name) == {p \in 1..Len(v.keys) : v.keys[p] = Str(name)}

MemberNamed(v, name) == v.c[CHOOSE p \in MembersNamed(v, name) : TRUE]

IsNodeRecord(v) ==
    /\ v.k = "OBJECT"
    /\ Cardinality(MembersNamed(v, DataLit)) = 1
    /\ MemberNamed(v, DataLit).k \in {"ARRAY", "STRING"}

IsMetricRecord(v) ==
    /\ v.k = "OBJECT"
    /\ Cardinality(MembersNamed(v, SeriesLit)) = 1
    /\ MemberNamed(v, SeriesLit).k = "ARRAY"
    /\ \A q \in 1..Len(MemberNamed(v, SeriesLit).c) :
          IsNodeRecord(MemberNamed(v, SeriesLit).c[q])

IsShaped(d) ==
    /\ d.k = "OBJECT"
    /\ \A p \in 1..Len(d.keys) : d.keys[p].k = "STRING"
    /\ \A p \in 1..Len(d.c) : IsMetricRecord(d.c[p])

RECURSIVE Concat(_, _)
Concat(seqs, from) ==
    IF from > Len(seqs) THEN <<>> ELSE seqs[from] \o Concat(seqs, from + 1)

\* the payload a "data" value is: the element count of an array, a scalar
PayloadOf(data) ==
    IF data.k = "ARRAY" THEN Line("elements", Len(data.c)) ELSE Line("scalar", 0)

NodePayloads(metric) ==
    LET nodeRecords == MemberNamed(metric, SeriesLit).c
    IN [q \in 1..Len(nodeRecords) |-> PayloadOf(MemberNamed(nodeRecords[q], DataLit))]

\* one payload per node record of every metric, in document order
ExpectedPayloads(d) == Concat([p \in 1..Len(d.c) |-> NodePayloads(d.c[p])], 1)

\* the payloads the walk reported
Reported == SelectSeq(out, LAMBDA l : l.line \in {"elements", "scalar"})

\* the lines that tell of a mismatch
Errors == SelectSeq(out, LAMBDA l : l.line \notin {"elements", "scalar"})

WalkOver == Walking /\ pc \in {"done", "exit"}

(***************************************************************************)
(* C2. For a document of the expected shape the walk reports exactly one   *)
(* payload per node record of every metric, in document order, an array    *)
(* payload with the child count of the array (0 for an empty array).       *)
(***************************************************************************)
C2_OnePayloadPerNode ==
    (WalkOver /\ IsShaped(input.doc)) =>
        (pc = "done" /\ Reported = ExpectedPayloads(input.doc))

(***************************************************************************)
(* Positions of the Document the schema names, from the child counts.      *)
(***************************************************************************)
RECURSIVE KeysFrom(_, _, _)
\* the positions of the next cnt member keys, the first at position pos
KeysFrom(toks, pos, cnt) ==
    IF cnt = 0 THEN {}
    ELSE {pos} \cup KeysFrom(toks, SubtreeEnd(toks, SubtreeEnd(toks, pos) + 1) + 1,
                              cnt - 1)

RECURSIVE ElementsFrom(_, _, _)
\* the positions of the next cnt elements, the first at position pos
ElementsFrom(toks, pos, cnt) ==
    IF cnt = 0 THEN {}
    ELSE {pos} \cup ElementsFrom(toks, SubtreeEnd(toks, pos) + 1, cnt - 1)

KeysOf(toks, k) ==
    IF toks[k].type = "OBJECT" THEN KeysFrom(toks, k + 1, toks[k].size) ELSE {}

ElementsOf(toks, k) ==
    IF toks[k].type = "ARRAY" THEN ElementsFrom(toks, k + 1, toks[k].size) ELSE {}

\* the position of the value of the member whose key is at position k
ValueOf(toks, k) == SubtreeEnd(toks, k) + 1

\* the values of the root's members: where a metric record is required
MetricValuePositions == {ValueOf(tokens, k) : k \in KeysOf(tokens, 1)}

\* the values of the "series" members of the metric records
SeriesValuePositions ==
    UNION {{ValueOf(tokens, k) : k \in {q \in KeysOf(tokens, r) :
                              json_token_streq(js, tokens[q], SeriesLit, FALSE)}}
           : r \in MetricValuePositions}

\* the elements of the "series" arrays: where a node record is required
NodeRecordPositions == UNION {ElementsOf(tokens, a) : a \in SeriesValuePositions}

\* the values of the "data" members of the node records
DataValuePositions ==
    UNION {{ValueOf(tokens, k) : k \in {q \in KeysOf(tokens, r) :
                              json_token_streq(js, tokens[q], DataLit, FALSE)}}
           : r \in NodeRecordPositions}

\* the positions at which a run of tokens handled in SKIP begins
SkipStarts ==
    {k \in 1..Consumed :
        visited[k] = "SKIP" /\ (k = 1 \/ visited[k - 1] # "SKIP")}

(***************************************************************************)
(* C4. Idempotent skip: the tokens handled in SKIP are exactly the tokens  *)
(* of the skipped value's subtree, the skip counter is 0 exactly once the  *)
(* last of them was consumed, and the token after them is handled outside  *)
(* SKIP.  The skipped value is taken to be the one rooted at the first     *)
(* token handled in SKIP or at the token handled just before it.           *)
(***************************************************************************)
SkipsExactly(k, root) ==
    LET last == SubtreeEnd(tokens, root)
    IN /\ \A m \in k..Consumed : (visited[m] = "SKIP") <=> (m <= last)
       /\ (Consumed >= last) <=> (skip_tokens = 0)

C4_SkipConsumesSubtree ==
    Walking =>
        \A k \in SkipStarts : SkipsExactly(k, k) \/ SkipsExactly(k, k - 1)

(***************************************************************************)
(* C5. Skip is not absorbing: a step in SKIP that brings the skip counter  *)
(* to 0 leaves SKIP.                                                       *)
(***************************************************************************)
C5_SkipIsLeft ==
    [][(pc = "walk" /\ state = "SKIP" /\ i' = i + 1 /\ skip_tokens' = 0)
          => state' # "SKIP"]_vars

(***************************************************************************)
(* C6. The step that consumes an empty array that is the value of a        *)
(* "series" member handles it as the series value, raises no error,        *)
(* reports no payload, and goes on with metric-member (or metric-key)      *)
(* matching, not with node matching.                                       *)
(***************************************************************************)
\* this step consumes the token at position k
Consumes(k) == pc = "walk" /\ Consumed' = Consumed + 1 /\ k = Consumed + 1

C6_EmptySeries ==
    [][pc = "walk" =>
          \A k \in SeriesValuePositions :
             (Consumes(k) /\ tokens[k].type = "ARRAY" /\ tokens[k].size = 0) =>
                 /\ state = "SERIES"
                 /\ pc' = "walk"
                 /\ state' \in {"METRIC_OBJECT", "METRIC"}
                 /\ out' = out]_vars

(***************************************************************************)
(* C7. A String "data" value is reported as exactly one scalar payload     *)
(* and does not leave the walker in DATA.                                  *)
(***************************************************************************)
ScalarNodes(d) ==
    SelectSeq(ExpectedPayloads(d), LAMBDA l : l.line = "scalar")

C7_StringDataReported ==
    (WalkOver /\ IsShaped(input.doc)) =>
        /\ SelectSeq(Reported, LAMBDA l : l.line = "scalar") = ScalarNodes(input.doc)
        /\ state # "DATA"

(***************************************************************************)
(* C8. A root that is not an Object ends the walk at the first token with  *)
(* the root error: nothing else is consumed, no other state is entered,    *)
(* no payload is reported.                                                 *)
(***************************************************************************)
C8_RootMustBeObject ==
    (Walking /\ Consumed >= 1 /\ tokens[1].type # "OBJECT") =>
        /\ pc = "exit"
        /\ i = 0
        /\ visited = <<"START">>
        /\ state = "START"
        /\ out = <<Line("root element must be object", 0)>>

C8_Witness ==
    /\ pc = "exit"
    /\ visited = <<"START">>
    /\ tokens[1].type = "ARRAY"
    /\ tokens[1].size = 3

(***************************************************************************)
(* C9. The walker never runs on a rejected document: after jsmn_parse      *)
(* answered INVAL or PART no token is ever consumed, and the program       *)
(* stops with that error.                                                  *)
(***************************************************************************)
C9_RejectedNeverWalked ==
    ret.err \in {"INVAL", "PART"} =>
        /\ pc \in {"loop", "exit"}
        /\ visited = <<>>
        /\ tokens = <<>>
        /\ pc = "exit" =>
             out = <<Line(IF ret.err = "INVAL" THEN "invalid JSON string"
                          ELSE "truncated JSON string", 0)>>

C9_Witness ==
    /\ pc = "exit"
    /\ ret.err = "PART"
    /\ input.class = "truncated"
    /\ Len(js) > 1

(***************************************************************************)
(* C10. Every value-type mismatch is fatal: the step that consumes a token *)
(* of another kind than the schema requires at its position (a metric      *)
(* value that is no Object, a "series" value that is no Array, a node      *)
(* record that is no Object, a "data" value that is neither Array nor      *)
(* String) ends the walk there with an error line: the index does not      *)
(* advance, no counter of the switch is set and no payload is reported.    *)
(***************************************************************************)
Mismatches ==
    {k \in MetricValuePositions : tokens[k].type # "OBJECT"}
      \cup {k \in SeriesValuePositions : tokens[k].type # "ARRAY"}
      \cup {k \in NodeRecordPositions : tokens[k].type # "OBJECT"}
      \cup {k \in DataValuePositions : tokens[k].type \notin {"ARRAY", "STRING"}}

C10_MismatchIsFatal ==
    [][pc = "walk" =>
          \A k \in Mismatches :
             Consumes(k) =>
                 /\ pc' = "exit"
                 /\ i' = i
                 /\ UNCHANGED <<object_tokens, node_tokens, skip_tokens, nodes, elements>>
                 /\ Len(out') = Len(out) + 1
                 /\ out'[Len(out')].line \notin {"elements", "scalar"}]_vars

(***************************************************************************)
(* C11. No structural error on the expected shape: a step of the walk over *)
(* a document of the expected shape raises no error and does not end the   *)
(* walk, and a step in DATA that checks an Array or a String token (the    *)
(* Data type check) reports no "expected string or array" error.           *)
(***************************************************************************)
\* this step handles, in state s, a token of one of the kinds
Handles(s, kinds) ==
    /\ pc = "walk"
    /\ state = s
    /\ Consumed' = Consumed + 1
    /\ i < Len(tokens)
    /\ tokens[i + 1].type \in kinds

C11_NoErrorOnExpectedShape ==
    [][pc = "walk" =>
          /\ IsShaped(input.doc) => (Errors' = Errors /\ pc' # "exit")
          /\ Handles("DATA", {"ARRAY", "STRING"}) => Errors' = Errors]_vars

(***************************************************************************)
(* C12. A key that is not a String is fatal: the step that consumes a      *)
(* token at a key position (the name of a metric in the root object, of a  *)
(* member of a metric record, of a member of a node record) that is not a  *)
(* String ends the walk there with the key-type error.                     *)
(***************************************************************************)
KeyPositions ==
    KeysOf(tokens, 1)
      \cup UNION {KeysOf(tokens, r) : r \in MetricValuePositions}
      \cup UNION {KeysOf(tokens, r) : r \in NodeRecordPositions}

C12_KeyMustBeString ==
    [][pc = "walk" =>
          \A k \in KeyPositions :
             (Consumes(k) /\ tokens[k].type # "STRING") =>
                 /\ pc' = "exit"
                 /\ i' = i
                 /\ out' = Append(out, Line("metric key must be a string", 0))]_vars

(***************************************************************************)
(* C13. Single forward pass: a step of the walk consumes exactly one       *)
(* token, the one at the index, and moves the index forward by exactly 1   *)
(* (it stays only when the step ends the walk); no step moves the index    *)
(* back, so the tokens consumed so far are those before the index and no   *)
(* token is read twice.                                                    *)
(***************************************************************************)
C13_SingleForwardPass ==
    [][/\ i' >= i
       /\ pc = "walk" =>
             /\ Consumed = i
             /\ Consumed' \in {Consumed, Consumed + 1}
             /\ Consumed' = Consumed + 1 =>
                   (IF pc' = "walk" THEN i' = i + 1 ELSE pc' = "exit" /\ i' = i)
             /\ Consumed' = Consumed => (i' = i /\ pc' = "done")]_vars

\* six tokens of a document were consumed, the last one inside a record
C13_Witness ==
    /\ pc = "walk"
    /\ input.class = "valid"
    /\ i = 6
    /\ Consumed = 6
    /\ j # 0
    /\ visited[6] = "SKIP"

(***************************************************************************)
(* C14. On entering a metric record (the Object that is the value of a     *)
(* root member) the metric-member counter is seeded from the child count   *)
(* of that Object, its member pairs or the tokens of its pairs, and the    *)
(* walker is back at metric-key matching exactly once the record's members *)
(* were consumed: no token of the record is handled in METRIC, the token   *)
(* after the record is.                                                    *)
(***************************************************************************)
MetricRecordPositions == {k \in MetricValuePositions : tokens[k].type = "OBJECT"}

C14_MetricCounterSeeded ==
    Walking =>
        \A k \in MetricRecordPositions :
            LET last == SubtreeEnd(tokens, k)
            IN /\ Consumed = k =>
                     object_tokens \in {tokens[k].size, 2 * tokens[k].size}
               /\ \A m \in (k + 1)..last : m <= Consumed => visited[m] # "METRIC"
               /\ Consumed > last => visited[last + 1] = "METRIC"

(***************************************************************************)
(* C15. The last node record of a "series" array is still matched: on a    *)
(* document of the expected shape the member keys of the last node record  *)
(* are handled in NODE_OBJECT and its "data" value in DATA, the token      *)
(* after that record is handled in metric-member (or metric-key) matching, *)
(* and the walker is not in STOP while the outer counter is not 0.         *)
(***************************************************************************)
\* the node records that are the last element of their "series" array
LastNodePositions ==
    UNION {{r \in ElementsOf(tokens, a) :
               SubtreeEnd(tokens, r) = SubtreeEnd(tokens, a)}
           : a \in SeriesValuePositions}

C15_LastNodeMatched ==
    (Walking /\ IsShaped(input.doc)) =>
        /\ \A r \in LastNodePositions :
              LET last == SubtreeEnd(tokens, r)
              IN /\ \A k \in KeysOf(tokens, r) :
                       /\ k <= Consumed => visited[k] = "NODE_OBJECT"
                       /\ (json_token_streq(js, tokens[k], DataLit, FALSE) /\ k < Consumed)
                             => visited[k + 1] = "DATA"
                 /\ Consumed > last =>
                       visited[last + 1] \in {"METRIC_OBJECT", "METRIC"}
        /\ (pc = "walk" /\ j # 0) => state # "STOP"

(***************************************************************************)
(* C16. Only keys are compared with the recognised names: the step that    *)
(* brings the walker into SERIES consumes a member key of a metric record  *)
(* that reads "series", the step that brings it into DATA a member key of  *)
(* a node record that reads "data"; a value of that text does neither.     *)
(***************************************************************************)
MetricMemberKeys == UNION {KeysOf(tokens, r) : r \in MetricValuePositions}

NodeMemberKeys == UNION {KeysOf(tokens, r) : r \in NodeRecordPositions}

\* this step consumes a token and leaves the walker in s, where it was not
Enters(s) == pc = "walk" /\ Consumed' = Consumed + 1 /\ state # s /\ state' = s

C16_OnlyKeysAreMatched ==
    [][pc = "walk" =>
          /\ Enters("SERIES") =>
                /\ Consumed + 1 \in MetricMemberKeys
                /\ json_token_streq(js, tokens[Consumed + 1], SeriesLit, FALSE)
          /\ Enters("DATA") =>
                /\ Consumed + 1 \in NodeMemberKeys
                /\ json_token_streq(js, tokens[Consumed + 1], DataLit, FALSE)]_vars

(***************************************************************************)
(* C17. Frame of the walk: a step of the walk leaves the token sequence    *)
(* unchanged, and the buffer unchanged except for the terminator at the    *)
(* end offset of the String tokens it materializes; no token is            *)
(* materialized twice; a step that compares a key with a recognised name   *)
(* (in METRIC_OBJECT or NODE_OBJECT) materializes nothing and leaves the   *)
(* buffer as it is.                                                        *)
(***************************************************************************)
\* buf with the terminator written for the tokens of the indexes idxs
Terminated(buf, idxs) ==
    [p \in 1..Len(buf) |->
        IF \E q \in 1..Len(idxs) : tokens[idxs[q] + 1].end + 1 = p
        THEN NUL ELSE buf[p]]

C17_WalkFrame ==
    [][pc = "walk" =>
          LET new == SubSeq(materialized', Len(materialized) + 1, Len(materialized'))
          IN /\ tokens' = tokens
             /\ materialized' = materialized \o new
             /\ \A q \in 1..Len(new) : tokens[new[q] + 1].type = "STRING"
             /\ js' = Terminated(js, new)
             /\ \A q, r \in 1..Len(materialized') :
                   materialized'[q] = materialized'[r] => q = r
             /\ (Consumed' = Consumed + 1 /\ state \in {"METRIC_OBJECT", "NODE_OBJECT"})
                   => (js' = js /\ new = <<>>)]_vars

\* a String was compared with "series" and found equal, one with "data" too
C17_Witness ==
    /\ pc = "walk"
    /\ Consumed = 6
    /\ visited[3] = "METRIC_OBJECT"
    /\ tokens[3].type = "STRING"
    /\ visited[4] = "SERIES"
    /\ visited[6] = "NODE_OBJECT"
    /\ state = "DATA"
    /\ js = Bytes(input)
    /\ tokens = Flatten(input.doc, 0).toks

(***************************************************************************)
(* C18. The retry loop of json_tokenise() terminates for every input and   *)
(* returns no truncated token list: jsmn_parse answers NOMEM only while    *)
(* the capacity is below the number of tokens, each retry replaces the     *)
(* capacity n by 2n + 1 > n, parsing (the first parse and every retry) is  *)
(* left only with all tokens of the document in a capacity that holds      *)
(* them or with the invalid/truncated error, and it is left eventually.    *)
(***************************************************************************)
AllTokens == Flatten(input.doc, 0).toks

C19_NoCounterWraps ==
    [][(pc = "walk" /\ input.class = "valid" /\ Consumed' = Consumed + 1) =>
          /\ state = "SKIP" => skip_tokens # 0
          /\ state = "METRIC_OBJECT" => object_tokens # 0
          /\ state = "NODE_ARRAY" => nodes # 0
          /\ state = "NODE_OBJECT" => node_tokens # 0]_vars

(***************************************************************************)
(* C20. Memory safety: whenever the loop is about to read a token          *)
(* (the outer counter is not 0) the index is below the number of tokens    *)
(* jsmn_parse produced, which the capacity of the array holds.             *)
(***************************************************************************)
C20_IndexInBounds ==
    (pc = "walk" /\ input.class = "valid") =>
        /\ tokens = AllTokens
        /\ Len(tokens) <= n
        /\ j # 0 => i < Len(tokens)

\* the loop is about to read the last token of a root object
C20_Witness ==
    /\ pc = "walk"
    /\ input.class = "valid"
    /\ j # 0
    /\ i = Len(tokens) - 1
    /\ tokens[1].type = "OBJECT"

====
